---- MODULE Spec2Model ----
(***************************************************************************)
(* PROFINET IO for scapy: the frame identifier classifier and dispatcher   *)
(* (scapy/contrib/pnio.py) and the Real-Time Cyclic PDU codec with its     *)
(* layout registry and the PROFIsafe sub-frame classes                     *)
(* (scapy/contrib/pnio_rtc.py).                                            *)
(*                                                                         *)
(* Python values are modelled as follows.  Byte strings are sequences of   *)
(* integers 0..255.  An optional value (None, or an unset attribute) is    *)
(* the empty sequence, a present value v is <<v>>.  Python list objects    *)
(* live in a heap (a function from references to sequences), so that       *)
(* aliasing and copy.deepcopy are visible.  A raised exception is the      *)
(* field exc of a result, "" meaning none.                                 *)
(***************************************************************************)
EXTENDS Integers, Sequences, FiniteSets, TLC

VARIABLES
    pc,       \* "call": op is about to be called on arg; "return": it returned
    op,       \* the codec operation called
    arg,      \* its arguments
    ret,      \* what it returned or raised
    heap,     \* Python list objects: reference -> list of sub-frame classes
    config,   \* conf.contribs['PNIO_RTC']: (src, dst, frameID) -> reference
    pkts,     \* PNIORealTimeCyclicPDU instances being dissected, per caller
    written   \* history: the layout the registry's owner last stored per key

vars == <<pc, op, arg, ret, heap, config, pkts, written>>

-----------------------------------------------------------------------------
(* Program constants *)

FRAME_ID_MAX == 65535
MAX_PDU_LEN == 1440
MAX_PADDING == 40
MAX_PADDING_UDP == 12
TRAILER_LEN == 4
DEFAULT_DATA_STATUS == 53

(* Bounds of the model *)

SmallLen == 64
NearWindow == 6
MaxLayoutLen == 2
MaxDataLen == 15
MaxRegLayoutLen == 2

-----------------------------------------------------------------------------
(* Helpers on byte strings *)

Min(a, b) == IF a < b THEN a ELSE b

Max(a, b) == IF a < b THEN b ELSE a

\* s[:n] for n >= 0
Take(s, n) == SubSeq(s, 1, Min(n, Len(s)))

\* s[n:] for n >= 0
Drop(s, n) == SubSeq(s, Min(n, Len(s)) + 1, Len(s))

\* struct.pack("%is" % l, val): val truncated or zero-filled to l bytes
struct_pack_s(l, val) == [i \in 1..l |-> IF i <= Len(val) THEN val[i] ELSE 0]

\* struct.pack("!H", v)
pack_short(v) == <<v \div 256, v % 256>>

\* struct.unpack("!H", s[:2])
unpack_short(s) == s[1] * 256 + s[2]

RECURSIVE pack_int(_, _)
\* v as w big-endian bytes
pack_int(w, v) == IF w = 0 THEN <<>> ELSE Append(pack_int(w - 1, v \div 256), v % 256)

-----------------------------------------------------------------------------
(* pnio.py: frame identifiers *)

PNIO_FRAME_IDS ==
    (\h0020 :> "PTCP-RTSyncPDU-followup") @@
    (\h0080 :> "PTCP-RTSyncPDU") @@
    (\hFC01 :> "Alarm High") @@
    (\hFE01 :> "Alarm Low") @@
    (\hFEFC :> "DCP-Hello-Req") @@
    (\hFEFD :> "DCP-Get-Set") @@
    (\hFEFE :> "DCP-Identify-ReqPDU") @@
    (\hFEFF :> "DCP-Identify-ResPDU") @@
    (\hFF00 :> "PTCP-AnnouncePDU") @@
    (\hFF20 :> "PTCP-FollowUpPDU") @@
    (\hFF40 :> "PTCP-DelayReqPDU") @@
    (\hFF41 :> "PTCP-DelayResPDU-followup") @@
    (\hFF42 :> "PTCP-DelayFuResPDU") @@
    (\hFF43 :> "PTCP-DelayResPDU")

\* The result of i2s_frameid: a table name, "<class> (%4x)" % x as the class
\* and the identifier it is formatted from, or the identifier itself.
FrameName(n) == [kind |-> "name", label |-> n, id |-> -1]

FrameClass(c, x) == [kind |-> "class", label |-> c, id |-> x]

FrameRaw(x) == [kind |-> "raw", label |-> "", id |-> x]

\* Faulty variant of i2s_frameid: RT_CLASS_3 ends and RT_CLASS_1 starts one identifier late
i2s_frameid_offbyone(x) ==
    IF x \in DOMAIN PNIO_FRAME_IDS THEN FrameName(PNIO_FRAME_IDS[x])
    ELSE IF \h0100 <= x /\ x <= \h1000 THEN FrameClass("RT_CLASS_3", x)
    ELSE IF \h8000 < x /\ x < \hC000 THEN FrameClass("RT_CLASS_1", x)
    ELSE IF \hC000 <= x /\ x < \hFC00 THEN FrameClass("RT_CLASS_UDP", x)
    ELSE IF \hFF80 <= x /\ x < \hFF90 THEN FrameClass("FragmentationFrameID", x)
    ELSE FrameRaw(x)

i2s_frameid(x) ==
    IF x \in DOMAIN PNIO_FRAME_IDS THEN FrameName(PNIO_FRAME_IDS[x])
    ELSE IF \h0100 <= x /\ x < \h1000 THEN FrameClass("RT_CLASS_3", x)
    ELSE IF \h8000 <= x /\ x < \hC000 THEN FrameClass("RT_CLASS_1", x)
    ELSE IF \hC000 <= x /\ x < \hFC00 THEN FrameClass("RT_CLASS_UDP", x)
    ELSE IF \hFF80 <= x /\ x < \hFF90 THEN FrameClass("FragmentationFrameID", x)
    ELSE FrameRaw(x)

\* The names python can resolve from pnio.py's module scope besides the ones
\* pnio.py defines or imports: pnio.py neither defines nor imports
\* PNIORealTimeCyclicPDU (pnio_rtc.py imports pnio, not the reverse), so the
\* name resolves only when the loader has exported pnio_rtc's symbols into the
\* builtins, and the lookup raises NameError otherwise.
Builtins == {{}, {"PNIORealTimeCyclicPDU"}}

\* ProfinetIO.guess_payload_class: "super" is Packet.guess_payload_class,
\* the generic resolver. The name PNIORealTimeCyclicPDU is looked up when the
\* return statement of line 101 runs.
guess_payload_class(frameID, builtins) ==
    IF (\h0100 <= frameID /\ frameID < \h1000) \/ (\h8000 <= frameID /\ frameID < \hFC00)
    THEN IF "PNIORealTimeCyclicPDU" \in builtins
         THEN [exc |-> "", cls |-> "PNIORealTimeCyclicPDU"]
         ELSE [exc |-> "NameError", cls |-> ""]
    ELSE [exc |-> "", cls |-> "super"]

-----------------------------------------------------------------------------
(* pnio_rtc.py: PROFIsafe *)

PROFIsafeClasses ==
    {"PROFIsafeControl", "PROFIsafeStatus",
     "PROFIsafeControlCRCSeed", "PROFIsafeStatusCRCSeed"}

\* the base class: PROFIsafeCRCSeed for the F_CRC_Seed=1 messages
IsCRCSeed(cls) == cls \in {"PROFIsafeControlCRCSeed", "PROFIsafeStatusCRCSeed"}

\* Faulty variant of get_max_data_length: the two base classes' limits exchanged
get_max_data_length_swapped(cls) == IF IsCRCSeed(cls) THEN 12 ELSE 13

get_max_data_length(cls) == IF IsCRCSeed(cls) THEN 13 ELSE 12

get_mandatory_fields_len(cls) == IF IsCRCSeed(cls) THEN 5 ELSE 4

\* XIntField for the CRCSeed classes, X3BytesField for the others
crc_width(cls) == IF IsCRCSeed(cls) THEN 4 ELSE 3

\* PROFIsafe.build_PROFIsafe_class(cls, data_length): the subclass whose
\* get_data_length is data_length
build_PROFIsafe_class(cls, data_length) ==
    IF ~(get_max_data_length(cls) >= data_length)
    THEN [exc |-> "AssertionError", base |-> cls, data_length |-> -1]
    ELSE [exc |-> "", base |-> cls, data_length |-> data_length]

\* raw() of a message of a class made by build_PROFIsafe_class: the data
\* (StrFixedLenField of get_data_length bytes), the control or status byte,
\* the crc
PROFIsafe_build(c, data, flags, crc) ==
    struct_pack_s(c.data_length, data) \o <<flags>> \o pack_int(crc_width(c.base), crc)

-----------------------------------------------------------------------------
(* pnio_rtc.py: sub-frame classes of an RTC PDU *)

\* A sub-frame class, as stored in a layout
PNIORealTimeCyclicDefaultRawData ==
    [name |-> "PNIORealTimeCyclicDefaultRawData", length |-> 0]

build_fixed_len_raw_type(length) ==
    [name |-> "FixedLenRawPacketLen", length |-> length]

\* A sub-frame: its class, its data field and, once dissected, the bytes it was
\* dissected from (raw_packet_cache)
SubFrame(cls, data) == [cls |-> cls, data |-> data, cache |-> <<>>]

\* PNIORealTimeCyclicDefaultRawData(s): StrField('data', '', remain=4) takes
\* s[:-4] and leaves s[-4:], which guess_payload_class makes its padding layer
DefaultRawData_dissect(s) ==
    LET n == Max(Len(s) - TRAILER_LEN, 0)
    IN  [pkt |-> [cls |-> PNIORealTimeCyclicDefaultRawData,
                  data |-> Take(s, n), cache |-> <<Take(s, n)>>],
         pad |-> Drop(s, n)]

\* FixedLenRawPacketLen<length>(s): StrFixedLenField('data', '', length=length)
\* takes s[:length] and leaves s[length:] as the padding layer
FixedLenRaw_dissect(cls, s) ==
    [pkt |-> [cls |-> cls, data |-> Take(s, cls.length),
              cache |-> <<Take(s, cls.length)>>],
     pad |-> Drop(s, cls.length)]

SubFrame_dissect(cls, s) ==
    IF cls.name = "PNIORealTimeCyclicDefaultRawData"
    THEN DefaultRawData_dissect(s)
    ELSE FixedLenRaw_dissect(cls, s)

\* str(pkt) of a sub-frame: the bytes it was dissected from, else its fields
\* built (StrFixedLenField packs to the fixed length, StrField as is)
SubFrame_raw(pkt) ==
    IF pkt.cache # <<>> THEN pkt.cache[1]
    ELSE IF pkt.cls.name = "PNIORealTimeCyclicDefaultRawData" THEN pkt.data
    ELSE struct_pack_s(pkt.cls.length, pkt.data)

RECURSIVE DataRaw(_)
\* b"".join(str(pkt) for pkt in data)
DataRaw(data) ==
    IF data = <<>> THEN <<>> ELSE SubFrame_raw(Head(data)) \o DataRaw(Tail(data))

RECURSIVE DataLen(_)
\* sum([len(str(pkt)) for pkt in data])
DataLen(data) ==
    IF data = <<>> THEN 0 ELSE Len(SubFrame_raw(Head(data))) + DataLen(Tail(data))

-----------------------------------------------------------------------------
(* pnio_rtc.py: PNIORealTimeCyclicPDU *)

\* The layers under the PDU, outermost first
Layer(type, src, dst, frameID) ==
    [type |-> type, src |-> src, dst |-> dst, frameID |-> frameID]

\* q = self; while not isinstance(q, type) and hasattr(q, 'underlayer'):
\* q = q.underlayer: the nearest underlayer of that type, if any
FindUnderlayer(chain, type) ==
    LET idx == {i \in 1..Len(chain) : chain[i].type = type}
    IN  IF idx = {} THEN <<>>
        ELSE <<chain[CHOOSE i \in idx : \A j \in idx : j <= i]>>

LayoutUnset == [state |-> "unset", ref |-> 0]

LayoutNone == [state |-> "none", ref |-> 0]

LayoutList(r) == [state |-> "list", ref |-> r]

\* A PNIORealTimeCyclicPDU instance: the slots _len and _layout and the fields
PDU(chain, data, padding, cycleCounter, dataStatus, transferStatus) ==
    [chain |-> chain, _len |-> <<>>, _layout |-> LayoutUnset,
     data |-> data, padding |-> padding, cycleCounter |-> cycleCounter,
     dataStatus |-> dataStatus, transferStatus |-> transferStatus]

\* The instance with the defaults of fields_desc
NewPDU(chain) == PDU(chain, <<>>, <<>>, 0, DEFAULT_DATA_STATUS, 0)

pre_dissect(p, s) == [p EXCEPT !._len = <<Min(MAX_PDU_LEN, Len(s))>>]

\* Faulty variant of get_padding_length: a trailer of 3 bytes instead of 4
get_padding_length_short_trailer(p) ==
    LET pad_len == IF p._len # <<>>
                   THEN p._len[1] - DataLen(p.data) - 2 - 1
                   ELSE Len(p.padding)
    IN  IF ~(0 <= pad_len /\ pad_len <= MAX_PADDING)
        THEN [exc |-> "AssertionError", pad_len |-> pad_len]
        ELSE IF FindUnderlayer(p.chain, "UDP") # <<>>
                /\ ~(0 <= pad_len /\ pad_len <= MAX_PADDING_UDP)
        THEN [exc |-> "AssertionError", pad_len |-> pad_len]
        ELSE [exc |-> "", pad_len |-> pad_len]

\* Faulty variant of get_padding_length: the UDP limit of 12 bytes is not asserted
get_padding_length_no_udp(p) ==
    LET pad_len == IF p._len # <<>>
                   THEN p._len[1] - DataLen(p.data) - 2 - 1 - 1
                   ELSE Len(p.padding)
    IN  IF ~(0 <= pad_len /\ pad_len <= MAX_PADDING)
        THEN [exc |-> "AssertionError", pad_len |-> pad_len]
        ELSE [exc |-> "", pad_len |-> pad_len]

get_padding_length(p) ==
    LET pad_len == IF p._len # <<>>
                   THEN p._len[1] - DataLen(p.data) - 2 - 1 - 1
                   ELSE Len(p.padding)
    IN  IF ~(0 <= pad_len /\ pad_len <= MAX_PADDING)
        THEN [exc |-> "AssertionError", pad_len |-> pad_len]
        ELSE IF FindUnderlayer(p.chain, "UDP") # <<>>
                /\ ~(0 <= pad_len /\ pad_len <= MAX_PADDING_UDP)
        THEN [exc |-> "AssertionError", pad_len |-> pad_len]
        ELSE [exc |-> "", pad_len |-> pad_len]

\* A reference no object of the heap has
NewRef(h) == CHOOSE r \in 1..(Cardinality(DOMAIN h) + 1) :
                 r \notin DOMAIN h /\ \A q \in 1..(r - 1) : q \in DOMAIN h

\* Faulty variant of get_layout_from_config: the stored list itself, no deepcopy
get_layout_from_config_shared(h, cfg, ether_src, ether_dst, frame_id) ==
    LET key == <<ether_src, ether_dst, frame_id>>
    IN  IF key \in DOMAIN cfg
        THEN [heap |-> h, ret |-> <<cfg[key]>>]
        ELSE [heap |-> h, ret |-> <<>>]

\* copy.deepcopy of the list stored for the key (its elements are classes,
\* which deepcopy returns as they are), or None on KeyError
get_layout_from_config(h, cfg, ether_src, ether_dst, frame_id) ==
    LET key == <<ether_src, ether_dst, frame_id>>
    IN  IF key \in DOMAIN cfg
        THEN [heap |-> (NewRef(h) :> h[cfg[key]]) @@ h, ret |-> <<NewRef(h)>>]
        ELSE [heap |-> h, ret |-> <<>>]

\* next_cls_cb: the class of the next sub-frame (ret), None (<<>>) or an
\* IndexError, with the instance and the heap as the call leaves them
next_cls_cb(p, h, cfg) ==
    IF p._layout.state = "list"
    THEN LET r == p._layout.ref
         IN  IF h[r] # <<>>
             THEN [p |-> p, heap |-> [h EXCEPT ![r] = Tail(h[r])],
                   ret |-> <<Head(h[r])>>, exc |-> ""]
             ELSE [p |-> [p EXCEPT !._layout = LayoutNone], heap |-> h,
                   ret |-> <<>>, exc |-> ""]
    ELSE LET ether_layer == FindUnderlayer(p.chain, "Ether")
             pnio_layer == FindUnderlayer(p.chain, "ProfinetIO")
             r0 == NewRef(h)
             h0 == (r0 :> <<PNIORealTimeCyclicDefaultRawData>>) @@ h
             layout == IF ether_layer # <<>> /\ pnio_layer # <<>>
                       THEN get_layout_from_config(h0, cfg, ether_layer[1].src,
                                ether_layer[1].dst, pnio_layer[1].frameID)
                       ELSE [heap |-> h0, ret |-> <<>>]
             r1 == IF layout.ret # <<>> THEN layout.ret[1] ELSE r0
             h1 == layout.heap
             p1 == [p EXCEPT !._layout = LayoutList(r1)]
         IN  IF h1[r1] # <<>>
             THEN [p |-> p1, heap |-> [h1 EXCEPT ![r1] = Tail(h1[r1])],
                   ret |-> <<Head(h1[r1])>>, exc |-> ""]
             ELSE [p |-> p1, heap |-> h1, ret |-> <<>>, exc |-> "IndexError"]

-----------------------------------------------------------------------------
(* Dissection of a PNIORealTimeCyclicPDU: Packet.dissect over fields_desc.    *)
(* A dissection in progress is a record d: where it stands (pc), the          *)
(* instance p, the state of the PacketListField loop (cls, c, remain, lst),   *)
(* the exception raised, the bytes left to the payload (rest) and the value   *)
(* get_padding_length computed (pad_len), if it was called.                   *)

\* pre_dissect, then PacketListField.getfield up to its loop: the first
\* next_cls_cb(pkt, [], None, s), c = 1
DissectStart(chain, s, h, cfg) ==
    LET r == next_cls_cb(pre_dissect(NewPDU(chain), s), h, cfg)
    IN  [d |-> [pc |-> IF r.exc # "" THEN "raised" ELSE "list",
                p |-> r.p, s |-> s, cls |-> r.ret, c |-> 1, remain |-> s,
                lst |-> <<>>, exc |-> r.exc, rest |-> <<>>, pad_len |-> <<>>],
         heap |-> r.heap]

\* One turn of PacketListField.getfield's loop: leave it when remain is empty
\* or c <= 0; else dissect one sub-frame from remain and, if it left bytes
\* (its padding layer), ask next_cls_cb for the next class
DissectList(d, h, cfg) ==
    IF d.remain = <<>> \/ d.c <= 0
    THEN [d |-> [d EXCEPT !.pc = "fields"], heap |-> h]
    ELSE LET sub == SubFrame_dissect(d.cls[1], d.remain)
         IN  IF sub.pad # <<>>
             THEN LET r == next_cls_cb(d.p, h, cfg)
                  IN  [d |-> [d EXCEPT !.pc = IF r.exc # "" THEN "raised" ELSE "list",
                                       !.p = r.p, !.cls = r.ret,
                                       !.c = d.c - 1 + (IF r.ret # <<>> THEN 1 ELSE 0),
                                       !.remain = sub.pad,
                                       !.lst = Append(d.lst, sub.pkt),
                                       !.exc = r.exc],
                       heap |-> r.heap]
             ELSE [d |-> [d EXCEPT !.c = d.c - 1, !.remain = <<>>,
                                   !.lst = Append(d.lst, sub.pkt)],
                   heap |-> h]

\* The fields after padding: ShortField, FlagsField over 8 bits, ByteField.
\* Packet.do_dissect stops at the first field that finds no byte left.
TrailingFields(p, s) ==
    IF s = <<>> THEN [p |-> p, rest |-> <<>>, exc |-> ""]
    ELSE IF Len(s) < 2 THEN [p |-> p, rest |-> <<>>, exc |-> "struct.error"]
    ELSE LET p1 == [p EXCEPT !.cycleCounter = unpack_short(s)]
             s1 == Drop(s, 2)
         IN  IF s1 = <<>> THEN [p |-> p1, rest |-> <<>>, exc |-> ""]
             ELSE LET p2 == [p1 EXCEPT !.dataStatus = s1[1]]
                      s2 == Drop(s1, 1)
                  IN  IF s2 = <<>> THEN [p |-> p2, rest |-> <<>>, exc |-> ""]
                      ELSE [p |-> [p2 EXCEPT !.transferStatus = s2[1]],
                            rest |-> Drop(s2, 1), exc |-> ""]

\* The rest of Packet.do_dissect once the data field is dissected: padding
\* (StrFixedLenField, length_from get_padding_length) and the trailing fields;
\* what is left is the payload
DissectFields(d) ==
    LET p1 == [d.p EXCEPT !.data = d.lst]
    IN  IF d.remain = <<>>
        THEN [d EXCEPT !.pc = "done", !.p = p1]
        ELSE LET pl == get_padding_length(p1)
             IN  IF pl.exc # ""
                 THEN [d EXCEPT !.pc = "raised", !.p = p1, !.exc = pl.exc,
                                !.pad_len = <<pl.pad_len>>]
                 ELSE LET t == TrailingFields(
                                   [p1 EXCEPT !.padding = Take(d.remain, pl.pad_len)],
                                   Drop(d.remain, pl.pad_len))
                      IN  [d EXCEPT !.pc = IF t.exc # "" THEN "raised" ELSE "done",
                                    !.p = t.p, !.exc = t.exc, !.rest = t.rest,
                                    !.remain = <<>>, !.pad_len = <<pl.pad_len>>]

RECURSIVE RunDissect(_, _, _)
RunDissect(d, h, cfg) ==
    IF d.pc = "list"
    THEN LET n == DissectList(d, h, cfg) IN RunDissect(n.d, n.heap, cfg)
    ELSE IF d.pc = "fields" THEN RunDissect(DissectFields(d), h, cfg)
    ELSE [d |-> d, heap |-> h]

\* PNIORealTimeCyclicPDU(s, _underlayer=...) for a non-empty s
Dissect(chain, s, h, cfg) ==
    LET b == DissectStart(chain, s, h, cfg) IN RunDissect(b.d, b.heap, cfg)

\* str(pkt) of a PNIORealTimeCyclicPDU that was not dissected: the fields of
\* fields_desc built in order
Build(p) ==
    LET pl == get_padding_length(p)
    IN  IF pl.exc # ""
        THEN [exc |-> pl.exc, wire |-> <<>>, pad_len |-> <<pl.pad_len>>]
        ELSE [exc |-> "",
              wire |-> DataRaw(p.data) \o struct_pack_s(pl.pad_len, p.padding)
                       \o pack_short(p.cycleCounter) \o <<p.dataStatus>>
                       \o <<p.transferStatus>>,
              pad_len |-> <<pl.pad_len>>]

-----------------------------------------------------------------------------
(* Inputs *)

\* The buffer of n bytes whose i-th byte is (fill + 7 * i) % 256
Buf(n, fill) == [i \in 1..n |-> (fill + 7 * i) % 256]

\* Buffer lengths: the short ones and those around the 1440 limit
Lens == (1..SmallLen) \cup ((MAX_PDU_LEN - NearWindow)..(MAX_PDU_LEN + NearWindow))

\* Lengths of the fixed-length raw sub-frames of a layout
RawLens == {0, 16, 1420, 1440}

\* Layouts: lists of fixed-length raw classes
Layouts ==
    UNION {[1..k -> {build_fixed_len_raw_type(l) : l \in RawLens}] : k \in 0..MaxLayoutLen}

PadLens == {0, 1, 12, 13, 40, 41}

SRC == "00:0e:8c:00:00:01"

DST == "00:0e:8c:00:00:02"

ChainDirect == <<>>

ChainEther == <<Layer("Ether", SRC, DST, 0), Layer("ProfinetIO", "", "", \h8000)>>

ChainUDP ==
    <<Layer("Ether", SRC, DST, 0), Layer("IP", "", "", 0), Layer("UDP", "", "", 0),
      Layer("ProfinetIO", "", "", \hC000)>>

Chains == {ChainDirect, ChainEther, ChainUDP}

\* The key next_cls_cb looks up for a PDU over these layers, if it looks one up
FlowKey(chain) ==
    IF FindUnderlayer(chain, "Ether") # <<>> /\ FindUnderlayer(chain, "ProfinetIO") # <<>>
    THEN <<<<FindUnderlayer(chain, "Ether")[1].src, FindUnderlayer(chain, "Ether")[1].dst,
             FindUnderlayer(chain, "ProfinetIO")[1].frameID>>>>
    ELSE <<>>

OtherKey == <<DST, SRC, \h8001>>

OtherLayout == <<build_fixed_len_raw_type(4)>>

\* A registry holding OtherLayout for OtherKey and, when entry is <<layout>>,
\* that layout for the flow of chain
Registry(entry, chain) ==
    IF entry # <<>> /\ FlowKey(chain) # <<>>
    THEN [heap |-> (1 :> OtherLayout) @@ (2 :> entry[1]),
          config |-> (OtherKey :> 1) @@ (FlowKey(chain)[1] :> 2)]
    ELSE [heap |-> (1 :> OtherLayout), config |-> (OtherKey :> 1)]

\* What the registry stores for a key, <<>> when it has no entry
Stored(h, cfg, key) == IF key \in DOMAIN cfg THEN <<h[cfg[key]]>> ELSE <<>>

\* The sub-frames of a frame laid out as layout, filled with bytes
Frames(layout, fill) ==
    [i \in 1..Len(layout) |-> SubFrame(layout[i], Buf(layout[i].length, fill + i))]

-----------------------------------------------------------------------------
(* Single calls: a call is drawn in the initial state and then made *)

\* What a finished dissection leaves: the exception, the instance, the payload,
\* the padding length computed, and what the registry stores afterwards
DissectResult(r, cfg, chain) ==
    [exc |-> r.d.exc, p |-> r.d.p, rest |-> r.d.rest, pad_len |-> r.d.pad_len,
     stored |-> IF FlowKey(chain) = <<>> THEN <<>>
                ELSE Stored(r.heap, cfg, FlowKey(chain)[1])]

Calls ==
    [op : {"i2s_frameid"}, x : 0..FRAME_ID_MAX]
    \cup [op : {"guess_payload_class"}, frameID : 0..FRAME_ID_MAX,
          builtins : Builtins]
    \cup [op : {"build_PROFIsafe_class"}, cls : PROFIsafeClasses,
          data_length : 0..MaxDataLen]
    \cup [op : {"dissect"}, s : {Buf(n, 0) : n \in Lens}, chain : Chains,
          entry : {<<>>} \cup {<<l>> : l \in Layouts}]
    \cup {[op |-> "build", layout |-> l,
           p |-> PDU(chain, Frames(l, 100), Buf(k, 200), \h1234, \hB5, 7)] :
          l \in Layouts, k \in PadLens, chain \in Chains}

Init ==
    /\ pc = "call"
    /\ arg \in Calls
    /\ op = arg.op
    /\ ret = <<>>
    /\ heap = <<>>
    /\ config = <<>>
    /\ pkts = <<>>
    /\ written = <<>>

Return(r) ==
    /\ pc' = "return"
    /\ ret' = r
    /\ UNCHANGED <<op, arg, heap, config, pkts, written>>

DoClassify ==
    /\ pc = "call" /\ op = "i2s_frameid"
    /\ Return(i2s_frameid(arg.x))

DoDispatch ==
    /\ pc = "call" /\ op = "guess_payload_class"
    /\ Return(guess_payload_class(arg.frameID, arg.builtins))

DoBuildPROFIsafe ==
    /\ pc = "call" /\ op = "build_PROFIsafe_class"
    /\ LET c == build_PROFIsafe_class(arg.cls, arg.data_length)
       IN  Return([exc |-> c.exc, cls |-> c,
                   wire |-> IF c.exc = ""
                            THEN PROFIsafe_build(c, Buf(arg.data_length, 1), 255, 0)
                            ELSE <<>>])

DoDissect ==
    /\ pc = "call" /\ op = "dissect"
    /\ LET m == Registry(arg.entry, arg.chain)
       IN  Return(DissectResult(Dissect(arg.chain, arg.s, m.heap, m.config),
                                m.config, arg.chain))

DoBuild ==
    /\ pc = "call" /\ op = "build"
    /\ Return(Build(arg.p))

\* The bytes just built, dissected under the same layers with the frame's
\* layout stored in the registry for its flow
DoDissectBuilt ==
    /\ pc = "return" /\ op = "build"
    /\ ret.exc = ""
    /\ ret.wire # <<>>
    /\ LET m == Registry(<<arg.layout>>, arg.p.chain)
       IN  /\ pc' = "return"
           /\ op' = "dissect_built"
           /\ arg' = [op |-> "dissect_built", p |-> arg.p, layout |-> arg.layout,
                      s |-> ret.wire]
           /\ ret' = DissectResult(Dissect(arg.p.chain, ret.wire, m.heap, m.config),
                                   m.config, arg.p.chain)
    /\ UNCHANGED <<heap, config, pkts, written>>

Next ==
    \/ DoClassify
    \/ DoDispatch
    \/ DoBuildPROFIsafe
    \/ DoDissect
    \/ DoBuild
    \/ DoDissectBuilt

Spec == Init /\ [][Next]_vars

-----------------------------------------------------------------------------
(* The registry shared by dissections in progress.  Each caller dissects one  *)
(* PDU at a time, one next_cls_cb call per step, while the registry's owner    *)
(* stores, extends and removes layouts.                                        *)

Callers == {"c1", "c2"}

RegKey == FlowKey(ChainEther)[1]

\* The layouts the owner stores; it extends them up to MaxRegLayoutLen classes
RegLayouts ==
    {<<>>, <<build_fixed_len_raw_type(2)>>,
     <<build_fixed_len_raw_type(2), build_fixed_len_raw_type(3)>>}

RegBufs == {Buf(9, 0)}

RegChains == {ChainEther}

Idle == [busy |-> FALSE]

\* The objects still referenced: by the registry, or as the _layout of an instance
Reachable(cfg, ps) ==
    {cfg[k] : k \in DOMAIN cfg}
    \cup {ps[c].d.p._layout.ref :
          c \in {b \in DOMAIN ps : ps[b].busy /\ ps[b].d.p._layout.state = "list"}}

\* The heap without the objects nothing references any more
Collect(h, cfg, ps) == [r \in DOMAIN h \cap Reachable(cfg, ps) |-> h[r]]

InitRegistry ==
    /\ pc = "return"
    /\ op = "none"
    /\ arg = <<>>
    /\ ret = <<>>
    /\ heap = <<>>
    /\ config = <<>>
    /\ pkts = [c \in Callers |-> Idle]
    /\ written = <<>>

\* conf.contribs['PNIO_RTC'][key] = layout
RegistryStore(layout) ==
    /\ config' = (RegKey :> NewRef(heap)) @@ config
    /\ heap' = Collect((NewRef(heap) :> layout) @@ heap, config', pkts)
    /\ written' = (RegKey :> layout) @@ written
    /\ UNCHANGED <<pc, op, arg, ret, pkts>>

\* conf.contribs['PNIO_RTC'][key].append(cls)
RegistryAppend(cls) ==
    /\ RegKey \in DOMAIN config
    /\ Len(heap[config[RegKey]]) < MaxRegLayoutLen
    /\ heap' = [heap EXCEPT ![config[RegKey]] = Append(@, cls)]
    /\ written' = [written EXCEPT ![RegKey] = Append(@, cls)]
    /\ UNCHANGED <<pc, op, arg, ret, config, pkts>>

\* del conf.contribs['PNIO_RTC'][key]
RegistryDelete ==
    /\ RegKey \in DOMAIN config
    /\ config' = [k \in DOMAIN config \ {RegKey} |-> config[k]]
    /\ written' = [k \in DOMAIN written \ {RegKey} |-> written[k]]
    /\ heap' = Collect(heap, config', pkts)
    /\ UNCHANGED <<pc, op, arg, ret, pkts>>

\* PNIORealTimeCyclicPDU(s, _underlayer=...) up to the first next_cls_cb.
\* snap is the layout that call found (what the registry stored for the flow,
\* else the default), used the classes popped from it so far.
DecodeBegin(c, chain, s) ==
    /\ ~pkts[c].busy
    /\ LET b == DissectStart(chain, s, heap, config)
           snap == IF FlowKey(chain) # <<>> /\ FlowKey(chain)[1] \in DOMAIN config
                   THEN heap[config[FlowKey(chain)[1]]]
                   ELSE <<PNIORealTimeCyclicDefaultRawData>>
       IN  /\ pkts' = [pkts EXCEPT ![c] = [busy |-> TRUE, d |-> b.d, snap |-> snap,
                                           used |-> b.d.cls]]
           /\ heap' = Collect(b.heap, config, pkts')
    /\ UNCHANGED <<pc, op, arg, ret, config, written>>

\* One more turn of the sub-frame loop
DecodeStep(c) ==
    /\ pkts[c].busy
    /\ pkts[c].d.pc = "list"
    /\ LET n == DissectList(pkts[c].d, heap, config)
           popped == IF Len(n.d.lst) > Len(pkts[c].d.lst) /\ n.d.remain # <<>>
                     THEN n.d.cls ELSE <<>>
       IN  /\ pkts' = [pkts EXCEPT ![c].d = n.d, ![c].used = @ \o popped]
           /\ heap' = Collect(n.heap, config, pkts')
    /\ UNCHANGED <<pc, op, arg, ret, config, written>>

\* The padding and the trailing fields
DecodeFinish(c) ==
    /\ pkts[c].busy
    /\ pkts[c].d.pc = "fields"
    /\ pkts' = [pkts EXCEPT ![c].d = DissectFields(@)]
    /\ UNCHANGED <<pc, op, arg, ret, heap, config, written>>

\* The caller is done with the instance (or with the exception)
DecodeDrop(c) ==
    /\ pkts[c].busy
    /\ pkts[c].d.pc \in {"done", "raised"}
    /\ pkts' = [pkts EXCEPT ![c] = Idle]
    /\ heap' = Collect(heap, config, pkts')
    /\ UNCHANGED <<pc, op, arg, ret, config, written>>

NextRegistry ==
    \/ \E layout \in RegLayouts : RegistryStore(layout)
    \/ RegistryAppend(build_fixed_len_raw_type(3))
    \/ RegistryDelete
    \/ \E c \in Callers, chain \in RegChains, s \in RegBufs : DecodeBegin(c, chain, s)
    \/ \E c \in Callers : DecodeStep(c)
    \/ \E c \in Callers : DecodeFinish(c)
    \/ \E c \in Callers : DecodeDrop(c)

SpecRegistry == InitRegistry /\ [][NextRegistry]_vars

-----------------------------------------------------------------------------
(* Properties *)

Returned(o) == pc = "return" /\ op = o

\* The layers the PDU of the call is carried over
CallChain == IF op = "dissect" THEN arg.chain ELSE arg.p.chain

OverUDP(chain) == \E i \in 1..Len(chain) : chain[i].type = "UDP"

HasFlow(chain) ==
    /\ \E i \in 1..Len(chain) : chain[i].type = "Ether"
    /\ \E i \in 1..Len(chain) : chain[i].type = "ProfinetIO"

RECURSIVE LayoutLen(_)
\* The bytes the fixed-length classes of a layout ask for
LayoutLen(layout) ==
    IF layout = <<>> THEN 0 ELSE Head(layout).length + LayoutLen(Tail(layout))

\* C1: whenever dissecting or building a PDU computes the padding length, the
\* call raises unless 0 <= pad <= 40, and over UDP unless pad <= 12 as well;
\* when it does not raise, the padding has exactly the computed length.
C1_PaddingBounds ==
    (pc = "return" /\ op \in {"dissect", "build", "dissect_built"} /\ ret.pad_len # <<>>) =>
        LET pad == ret.pad_len[1]
            allowed == 0 <= pad /\ pad <= 40 /\ (OverUDP(CallChain) => pad <= 12)
        IN  /\ (ret.exc = "") <=> allowed
            /\ (op = "build" /\ ret.exc = "") =>
                   /\ pad = Len(arg.p.padding)
                   /\ Len(ret.wire) = DataLen(arg.p.data) + pad + 4
                   /\ SubSeq(ret.wire, DataLen(arg.p.data) + 1, DataLen(arg.p.data) + pad)
                          = arg.p.padding
            /\ (op # "build" /\ ret.exc = "") =>
                   /\ Len(ret.p.padding) = pad
                   /\ pad = Min(1440, Len(arg.s)) - DataLen(ret.p.data) - 4

\* C1 witness: a dissection over Ethernet that computed 13 bytes of padding and
\* did not raise
C1_Witness ==
    /\ Returned("dissect")
    /\ ~OverUDP(arg.chain)
    /\ ret.pad_len = <<13>>
    /\ ret.exc = ""
    /\ Len(ret.p.padding) = 13

\* C2: the dispatcher picks the RTC PDU exactly for the identifiers of the
\* RT_CLASS_3 (0x0100..0x0FFF) and RT_CLASS_1 (0x8000..0xBFFF) ranges, and
\* hands every other identifier to the generic resolver.
C2_Original ==
    Returned("guess_payload_class") =>
        LET rt13 == \/ (256 <= arg.frameID /\ arg.frameID < 4096)
                    \/ (32768 <= arg.frameID /\ arg.frameID < 49152)
        IN  /\ rt13 => (ret.exc = "" /\ ret.cls = "PNIORealTimeCyclicPDU")
            /\ ~rt13 => (ret.exc = "" /\ ret.cls = "super")

\* What the dispatcher does: outside the RT_CLASS_3, RT_CLASS_1 and RT_CLASS_UDP
\* ranges it returns the generic resolver's answer; inside them it returns the
\* RTC PDU when the name resolves and raises NameError when it does not.
DispatchOutcome ==
    Returned("guess_payload_class") =>
        LET rt == \/ (256 <= arg.frameID /\ arg.frameID < 4096)
                  \/ (32768 <= arg.frameID /\ arg.frameID < 64512)
        IN  /\ ~rt => ret = [exc |-> "", cls |-> "super"]
            /\ (rt /\ "PNIORealTimeCyclicPDU" \in arg.builtins)
                  => ret = [exc |-> "", cls |-> "PNIORealTimeCyclicPDU"]
            /\ (rt /\ "PNIORealTimeCyclicPDU" \notin arg.builtins)
                  => ret = [exc |-> "NameError", cls |-> ""]

\* C3: with no registry entry for the flow, a buffer of 4 <= n <= 1440 bytes
\* dissects without error into one default raw sub-frame of the first n - 4
\* bytes, no padding, and the trailing fields from the last 4 bytes.
C3_DefaultLayout ==
    (Returned("dissect") /\ arg.entry = <<>>
        /\ 4 <= Len(arg.s) /\ Len(arg.s) <= 1440) =>
        LET n == Len(arg.s)
        IN  /\ ret.exc = ""
            /\ Len(ret.p.data) = 1
            /\ ret.p.data[1].cls = PNIORealTimeCyclicDefaultRawData
            /\ ret.p.data[1].data = SubSeq(arg.s, 1, n - 4)
            /\ ret.p.padding = <<>>
            /\ ret.p.cycleCounter = arg.s[n - 3] * 256 + arg.s[n - 2]
            /\ ret.p.dataStatus = arg.s[n - 1]
            /\ ret.p.transferStatus = arg.s[n]
            /\ ret.rest = <<>>

\* C3 witness: 20 bytes over Ethernet, no entry: one sub-frame of 16 bytes
C3_Witness ==
    /\ Returned("dissect")
    /\ arg.entry = <<>>
    /\ HasFlow(arg.chain)
    /\ Len(arg.s) = 20
    /\ ret.exc = ""
    /\ Len(ret.p.data) = 1
    /\ Len(ret.p.data[1].data) = 16

\* C4: a buffer longer than 1440 bytes dissects as its first 1440 bytes do,
\* whatever the layout: if those dissect without error, so does the buffer,
\* into at most 1440 bytes, leaving the bytes beyond to the payload.
C4_ClampedNotRejected ==
    (Returned("dissect") /\ Len(arg.s) > 1440) =>
        LET m == Registry(arg.entry, arg.chain)
            clamped == Dissect(arg.chain, Take(arg.s, 1440), m.heap, m.config).d
        IN  (clamped.exc = "") =>
                /\ ret.exc = ""
                /\ DataLen(ret.p.data) + Len(ret.p.padding) + 4 <= 1440
                /\ ret.rest = Drop(arg.s, 1440)

\* C5: when the layout of the flow asks for more bytes than the buffer holds,
\* the dissection fails.
C5_TruncatedFails ==
    (Returned("dissect") /\ arg.entry # <<>> /\ HasFlow(arg.chain)
        /\ LayoutLen(arg.entry[1]) > Len(arg.s)) =>
        ret.exc # ""

\* C6: every frame dissected or built without error has
\* len(sub-frames) + len(padding) + 4 <= 1440.
C6_FrameLengthBound ==
    /\ (pc = "return" /\ op \in {"dissect", "dissect_built"} /\ ret.exc = "") =>
           DataLen(ret.p.data) + Len(ret.p.padding) + 4 <= 1440
    /\ (Returned("build") /\ ret.exc = "") =>
           DataLen(arg.p.data) + Len(arg.p.padding) + 4 <= 1440

\* The dissected frame is the frame that was built
SameFrame(q, p) ==
    /\ Len(q.data) = Len(p.data)
    /\ \A i \in 1..Len(p.data) :
           /\ q.data[i].cls = p.data[i].cls
           /\ q.data[i].data = p.data[i].data
    /\ q.padding = p.padding
    /\ q.cycleCounter = p.cycleCounter
    /\ q.dataStatus = p.dataStatus
    /\ q.transferStatus = p.transferStatus

\* C7: a frame of fixed-length raw sub-frames that match the registry entry of
\* its flow, with sub-frame bytes + 4 within 1440 and padding within the bound
\* of its transport, dissects from its built bytes into the same frame.
C7_RoundTrip ==
    (Returned("dissect_built") /\ HasFlow(arg.p.chain)
        /\ LayoutLen(arg.layout) + 4 <= 1440) =>
        /\ ret.exc = ""
        /\ SameFrame(ret.p, arg.p)

\* The round trip does hold for the frames with at least one sub-frame whose
\* built length is within 1440 bytes.
RoundTripWithinLimit ==
    (Returned("dissect_built") /\ HasFlow(arg.p.chain) /\ arg.layout # <<>>
        /\ LayoutLen(arg.layout) + Len(arg.p.padding) + 4 <= 1440) =>
        /\ ret.exc = ""
        /\ SameFrame(ret.p, arg.p)
        /\ ret.rest = <<>>

\* C8: build_PROFIsafe_class accepts a data length D up to 12 (F_CRC_Seed=0) or
\* 13 (F_CRC_Seed=1), for Control and Status alike, and the message is then
\* D + 1 + 3 or D + 1 + 4 bytes; a larger D is refused.
C8_PROFIsafeLength ==
    Returned("build_PROFIsafe_class") =>
        LET seed == arg.cls \in {"PROFIsafeControlCRCSeed", "PROFIsafeStatusCRCSeed"}
            D == arg.data_length
        IN  IF D <= (IF seed THEN 13 ELSE 12)
            THEN /\ ret.exc = ""
                 /\ ret.cls.data_length = D
                 /\ Len(ret.wire) = D + 1 + (IF seed THEN 4 ELSE 3)
                 /\ SubSeq(ret.wire, 1, D) = Buf(D, 1)
            ELSE /\ ret.exc = "AssertionError"
                 /\ ret.wire = <<>>

\* C8 witness: Status with F_CRC_Seed=1 and D = 13 builds 18 bytes
C8_Witness ==
    /\ Returned("build_PROFIsafe_class")
    /\ arg.cls = "PROFIsafeStatusCRCSeed"
    /\ arg.data_length = 13
    /\ ret.exc = ""
    /\ Len(ret.wire) = 18

\* C9: the registry stores, for every key, the layout its owner last stored
\* there, whatever the dissections in progress popped; and every dissection
\* works through the layout its lookup found: the classes it popped so far,
\* then the ones left in its queue, are that layout, and its sub-frames are of
\* the classes popped, in order.
C9_OwnedSnapshot ==
    /\ DOMAIN config = DOMAIN written
    /\ \A k \in DOMAIN config : heap[config[k]] = written[k]
    /\ \A c \in DOMAIN pkts :
           pkts[c].busy =>
               /\ pkts[c].d.p._layout.state = "list" =>
                      pkts[c].used \o heap[pkts[c].d.p._layout.ref] = pkts[c].snap
               /\ pkts[c].d.p._layout.state = "none" => pkts[c].used = pkts[c].snap
               /\ Len(pkts[c].d.lst) <= Len(pkts[c].used)
               /\ \A i \in 1..Len(pkts[c].d.lst) :
                      pkts[c].d.lst[i].cls = pkts[c].used[i]

\* C9 witness: a dissection that has the first of the two sub-frames of the
\* layout its lookup found, while the registry by now stores another layout
\* for its flow and the other caller has a sub-frame of its own dissection
C9_Witness ==
    \E c \in DOMAIN pkts :
        /\ pkts[c].busy
        /\ pkts[c].d.pc = "list"
        /\ Len(pkts[c].d.lst) = 1
        /\ Len(pkts[c].snap) = 2
        /\ pkts[c].d.p._layout.state = "list"
        /\ RegKey \in DOMAIN written
        /\ written[RegKey] # pkts[c].snap
        /\ \E b \in DOMAIN pkts \ {c} : pkts[b].busy /\ Len(pkts[b].d.lst) = 1

\* C10: i2s_frameid answers for every 16-bit identifier; it names RT_CLASS_3
\* for 0x0100 <= x < 0x1000 and RT_CLASS_1 for 0x8000 <= x < 0xC000, with the
\* identifier, and neither class for 0x1000 or 0x7FFF.
C10_Classify ==
    Returned("i2s_frameid") =>
        /\ ret.kind \in {"name", "class", "raw"}
        /\ (256 <= arg.x /\ arg.x < 4096) => ret = FrameClass("RT_CLASS_3", arg.x)
        /\ (32768 <= arg.x /\ arg.x < 49152) => ret = FrameClass("RT_CLASS_1", arg.x)
        /\ arg.x \in {255, 4096} => ret.label # "RT_CLASS_3"
        /\ arg.x \in {32767, 49152} => ret.label # "RT_CLASS_1"

\* C10 witness: 0x0FFF is RT_CLASS_3
C10_Witness ==
    /\ Returned("i2s_frameid")
    /\ arg.x = 4095
    /\ ret.kind = "class"
    /\ ret.label = "RT_CLASS_3"

====
